---- MODULE Spec2Model ----
(***************************************************************************)
(* The MCP Selenium server: the session registry (state.drivers,           *)
(* state.currentSession), the start_browser handler, the command handlers  *)
(* that resolve their driver through getDriver, and the cleanup handler    *)
(* bound to SIGTERM and SIGINT.  One Node.js event loop: a handler runs    *)
(* without interruption from one await to the next, and other handlers     *)
(* (commands, signal handlers) run while it is suspended in an await.      *)
(***************************************************************************)
EXTENDS Integers, Sequences, FiniteSets, TLC

\* ------------------------------------------------------------------ bounds
\* SpecLifecycle: launches and shutdown.
MaxLaunches == 2    \* start_browser commands dispatched in one run
MaxSignals  == 2    \* termination signals delivered to the server
\* Spec: launches, the other commands and shutdown.
CmdLaunches == 1    \* start_browser commands dispatched in one run
CmdSignals  == 1    \* termination signals delivered to the server
MaxCommands == 1    \* other commands dispatched in one run, one after the other
\* SpecGetDriver: getDriver applied to a registry.
MaxEntries  == 2    \* sessions in the registry

\* ------------------------------------------------------- program constants
\* The two revisions of the server kept in the repository.
Variants == {"server_js", "part_002"}
\* z.enum(["chrome", "firefox"])
Browsers == {"chrome", "firefox"}
\* state.currentSession = null
Null == <<>>
\* Map.prototype.get on a missing key
Undefined == 0

Largest(S)  == CHOOSE x \in S : \A y \in S : y <= x
StartSlots == 1..Largest({MaxLaunches, CmdLaunches, MaxEntries})
\* The driver built by the i-th start_browser call is handle i.
Handles    == StartSlots

\* --------------------------------------------------- Map (insertion order)
\* state.drivers is a JavaScript Map: a list of entries in insertion order.
MapHas(m, k) == \E i \in 1..Len(m) : m[i].id = k

MapGet(m, k) ==
  IF MapHas(m, k) THEN m[CHOOSE i \in 1..Len(m) : m[i].id = k].driver
                  ELSE Undefined

\* Map.prototype.set: an existing key keeps its place and takes the new
\* value; a new key is appended.
MapSet(m, k, v) ==
  IF MapHas(m, k)
    THEN [i \in 1..Len(m) |-> IF m[i].id = k THEN [id |-> k, driver |-> v] ELSE m[i]]
    ELSE Append(m, [id |-> k, driver |-> v])

MapKeys(m)   == {m[i].id : i \in 1..Len(m)}
MapValues(m) == {m[i].driver : i \in 1..Len(m)}

\* ---------------------------------------------------------------- helpers
\* const sessionId = `${browser}_${Date.now()}`: the text is determined by,
\* and determines, the pair (browser, stamp).
NewSessionId(browser, stamp) == <<browser, stamp>>

\* state.drivers.set(sessionId, driver)
RegisterSkipInsert(m, sid, h) == m
RegisterDriver(m, sid, h) == MapSet(m, sid, h)

\* state.currentSession = sessionId
RegisterKeepFirst(cur, sid) == IF cur = Null THEN sid ELSE cur
RegisterNoCurrent(cur, sid) == cur
RegisterCurrent(cur, sid) == sid

\* state.drivers.keys().next().value
pickLast(m) == m[Len(m)].id
pickDefault(m) == m[1].id

NoActiveSessionMessage(v) ==
  IF v = "part_002"
    THEN "No active browser session. Please start a browser session using the start_browser tool."
    ELSE "No active browser session"

\* if (!state.currentSession && state.drivers.size > 0): the branch that only
\* the revision part_002 has.
AutoSelects(v, m, cur) == v = "part_002" /\ cur = Null /\ Len(m) > 0

\* getDriver: the handle it returns (Undefined when it throws), the value it
\* leaves in state.currentSession, whether it took the auto-selection branch,
\* and the message of the error it throws.
getDriverUnsets(v, m, cur) ==
  LET c == IF AutoSelects(v, m, cur) THEN pickDefault(m) ELSE cur
      d == MapGet(m, c)
  IN  [driver |-> d, current |-> Null,
       selected |-> AutoSelects(v, m, cur),
       threw |-> d = Undefined,
       message |-> IF d = Undefined THEN NoActiveSessionMessage(v) ELSE ""]
getDriver(v, m, cur) ==
  LET c == IF AutoSelects(v, m, cur) THEN pickDefault(m) ELSE cur
      d == MapGet(m, c)
  IN  [driver |-> d, current |-> c,
       selected |-> AutoSelects(v, m, cur),
       threw |-> d = Undefined,
       message |-> IF d = Undefined THEN NoActiveSessionMessage(v) ELSE ""]

\* -------------------------------------------------------------- variables
VARIABLES
  variant,         \* which revision of the server runs
  now,             \* the value the last Date.now() returned
  drivers,         \* state.drivers
  currentSession,  \* state.currentSession
  starts,          \* the start_browser handlers, by dispatch order
  handler,         \* the handler of the command in progress, or of the last one
  dispatched,      \* how many commands other than start_browser were dispatched
  quitCalls,       \* how many times driver.quit() was invoked on each handle
  passes,          \* the cleanup() invocations, by signal order
  exitCode,        \* -1 while the process runs, the code given to process.exit
  regLog,          \* the registrations start_browser made, in order
  launch,          \* the launcher, and how far the server it spawned has started
  status           \* the text the last read of browser-status returned

vars == <<variant, now, drivers, currentSession, starts, handler, dispatched, quitCalls,
          passes, exitCode, regLog, launch, status>>

\* The launcher (bin/mcp-selenium.js): where it is (launcher), its exit code
\* (code, -1 while it runs), where the server process is (server: "none"
\* before it is spawned, "starting" until server.connect(transport) resolved,
\* "connected" after), and the exit code of the server the launcher logged
\* (logged, -1 while none), the signals the launcher received (received) and
\* the signals it called child.kill with (killed), in order.
NotLaunched == [launcher |-> "start", code |-> -1, server |-> "none", logged |-> -1,
                received |-> <<>>, killed |-> <<>>]
\* The launcher waiting on a server that has connected its transport.
Served == [launcher |-> "running", code |-> -1, server |-> "connected", logged |-> -1,
           received |-> <<>>, killed |-> <<>>]

\* The server process runs: it was spawned and has not exited.
Running == exitCode = -1 /\ launch.server # "none"
\* Commands reach the handlers once the transport is connected.
Serving == Running /\ launch.server = "connected"

NoResult == [kind |-> "none", prefix |-> "", message |-> ""]
\* The frame of a start_browser handler: the browser kind and the extra
\* arguments it was given, the driver configuration it built (arguments,
\* dataDir), for chrome the environment override and the executable files the
\* driver search saw and the path it returned, and how the handler ended.
IdleStart == [pc |-> "idle", browser |-> "", extras |-> <<>>, arguments |-> <<>>,
              dataDir |-> Null, env |-> "", executable |-> {}, driverPath |-> "",
              launched |-> FALSE, session |-> Null, result |-> NoResult]
\* The frame of a command handler: its locals (driver, attempt, lastError), the
\* position it is suspended at (step), and what it has done so far: the driver
\* calls it issued (calls), the awaited calls that settled and the message of
\* the error each one rejected with, "" when it resolved (log), the time its
\* element waits took (waited), whether it wrote the file and the bytes
\* written (wrote, file), the data items of its result (inline), and how many
\* times it returned (returned).  by, value, targetValue and timeout are its
\* arguments.
IdleCmd == [pc |-> "idle", cmd |-> "", withPath |-> FALSE, by |-> "", value |-> "",
            targetValue |-> "", timeout |-> 0, driver |-> Undefined,
            selected |-> FALSE, step |-> 0, attempt |-> 0, lastError |-> "",
            calls |-> 0, log |-> <<>>, waited |-> 0, file |-> <<>>, inline |-> <<>>,
            wrote |-> FALSE, returned |-> 0, result |-> NoResult]

Init ==
  /\ variant \in Variants
  /\ now = 1
  /\ drivers = <<>>
  /\ currentSession = Null
  /\ starts = [i \in StartSlots |-> IdleStart]
  /\ handler = IdleCmd
  /\ dispatched = 0
  /\ quitCalls = [h \in Handles |-> 0]
  /\ passes = <<>>
  /\ exitCode = -1
  /\ regLog = <<>>
  /\ launch = Served
  /\ status = <<>>

\* Date.now(): the clock never runs backwards, and a read returns the value
\* the previous read returned when less than a millisecond has passed since.
\* Session ids are only compared for equality, so a later value is now + 1.
DateNow(tick) == IF tick THEN now + 1 ELSE now

\* ---------------------------------------------------------- start_browser
ChromedriverNotFound ==
  "Chromedriver executable not found in any known path. Verifiez son installation."

StartError(msg) == [kind |-> "error", prefix |-> "Error starting browser: ", message |-> msg]
StartOk == [kind |-> "ok", prefix |-> "Browser started with session_id: ", message |-> ""]

\* browserOptionsSchema: headless and arguments, both optional.  An absent
\* arguments and an empty array add the same (no) arguments.
Headless == {"absent", "true", "false"}
ExtraArguments == {<<>>, <<"--window-size=1280,720">>, <<"--no-sandbox">>,
                   <<"--width=800", "--height=600">>}
OptionValues == [headless : Headless, arguments : ExtraArguments]
\* async ({ browser, options = {} })
NoOptions == [headless |-> "absent", arguments |-> <<>>]

\* The revisions of start_browser kept in the repository: the two of the
\* server and the one of part_001.
ConfigRevisions == Variants \cup {"part_001"}

\* chromeOptions.addArguments(...): the arguments of the chrome driver
\* configuration, in order; the value of --user-data-dir is in dataDir.
chromeArguments(v, options) ==
  IF v = "part_001"
    THEN <<"--headless=new", "--no-sandbox", "--disable-dev-shm-usage", "--disable-gpu">>
           \o options.arguments
    ELSE <<"--headless", "--no-sandbox", "--disable-dev-shm-usage", "--disable-gpu">>
           \o (IF v = "part_002" THEN <<"--use-gl=swiftshader">> ELSE <<>>)
           \o <<"--user-data-dir">> \o options.arguments

\* firefoxOptions.addArguments(...): the arguments of the firefox driver
\* configuration, in order.
firefoxArguments(v, options) ==
  IF v = "part_001"
    THEN <<"--headless", "--no-sandbox", "--disable-dev-shm-usage", "--disable-gpu">>
           \o options.arguments
    ELSE (IF options.headless = "true" THEN <<"--headless">> ELSE <<>>)
           \o options.arguments

\* The directory for profile and cache data the configuration names: the
\* constant chromeDataDir of server.js (chrome only), the directory
\* fs.mkdtempSync creates for the call in part_002 (a name not in use, here
\* the prefix with the number of the call), none in part_001.
dataDirOf(v, browser, i) ==
  CASE v = "server_js" -> IF browser = "chrome" THEN <<"/tmp/chrome-data", 0>> ELSE Null
    [] v = "part_002"  -> IF browser = "chrome" THEN <<"/tmp/chrome-data-", i>>
                                                ELSE <<"/tmp/firefox-profile-", i>>
    [] OTHER           -> Null

\* process.env.CHROMEDRIVER_BIN, "" when it is not set, and the files
\* fs.accessSync(path, fs.constants.X_OK) accepts.
EnvOverrides == {"", "/opt/chromedriver"}
KnownPaths == <<"/usr/bin/chromedriver", "/usr/lib/chromium/chromedriver",
                "/usr/bin/chromium-chromedriver">>
ExecutableSets == SUBSET ({"/opt/chromedriver"} \cup {KnownPaths[k] : k \in 1..Len(KnownPaths)})

\* [process.env.CHROMEDRIVER_BIN, ...].filter(Boolean)
possiblePaths(env) == SelectSeq(<<env>> \o KnownPaths, LAMBDA path : path # "")

\* findChromeDriverPath: the first candidate fs.accessSync accepts, or the
\* throw after the loop.
findLastExecutable(env, executable) ==
  LET paths == possiblePaths(env)
      hits == {k \in 1..Len(paths) : paths[k] \in executable}
  IN  IF hits = {} THEN [threw |-> TRUE, path |-> ""]
      ELSE [threw |-> FALSE, path |-> paths[CHOOSE k \in hits : \A j \in hits : j <= k]]
findChromeDriverPath(env, executable) ==
  LET paths == possiblePaths(env)
      hits == {k \in 1..Len(paths) : paths[k] \in executable}
  IN  IF hits = {} THEN [threw |-> TRUE, path |-> ""]
      ELSE [threw |-> FALSE, path |-> paths[CHOOSE k \in hits : \A j \in hits : k <= j]]

\* The handler up to its first await: the options are built, for chrome (but
\* in part_001) findChromeDriverPath() runs and throws when no candidate is
\* executable, and builder.build() is called.
start_browser(i, browser, env, executable, options) ==
  /\ Serving
  /\ starts[i].pc = "idle"
  /\ i > 1 => starts[i - 1].pc # "idle"
  /\ LET searches == browser = "chrome" /\ variant # "part_001"
         found == findChromeDriverPath(env, executable)
         frame == [IdleStart EXCEPT
                     !.browser = browser,
                     !.extras = options.arguments,
                     !.arguments = IF browser = "chrome"
                                     THEN chromeArguments(variant, options)
                                     ELSE firefoxArguments(variant, options),
                     !.dataDir = dataDirOf(variant, browser, i),
                     !.env = IF searches THEN env ELSE "",
                     !.executable = IF searches THEN executable ELSE {},
                     !.driverPath = IF searches THEN found.path ELSE ""]
     IN starts' = [starts EXCEPT ![i] =
          IF searches /\ found.threw
            THEN [frame EXCEPT !.pc = "done", !.result = StartError(ChromedriverNotFound)]
            ELSE [frame EXCEPT !.pc = "build"]]
  /\ UNCHANGED <<variant, launch, status, now, drivers, currentSession, handler, dispatched, quitCalls,
                 passes, exitCode, regLog>>

\* What the handler does after builder.build() resolved, in order: server.js
\* awaits driver.manage().setTimeouts(...) and then registers the session; the
\* other revision registers at once.
registerBeforeSetTimeouts(v) ==
  IF v = "server_js" THEN <<"register", "setTimeouts">> ELSE <<"register">>
stepsAfterBuild(v) ==
  IF v = "server_js" THEN <<"setTimeouts", "register">> ELSE <<"register">>

\* const sessionId = ...; state.drivers.set(sessionId, driver);
\* state.currentSession = sessionId: one uninterrupted run, followed by the
\* return or, when more is to come, by the next await.
Register(i, tick, more) ==
  LET sid == NewSessionId(starts[i].browser, DateNow(tick)) IN
  /\ now' = DateNow(tick)
  /\ drivers' = RegisterDriver(drivers, sid, i)
  /\ currentSession' = RegisterCurrent(currentSession, sid)
  /\ regLog' = Append(regLog, [id |-> sid, driver |-> i])
  /\ starts' = [starts EXCEPT ![i] =
       [starts[i] EXCEPT !.pc = IF more THEN "setTimeouts" ELSE "done",
                         !.launched = TRUE, !.session = sid,
                         !.result = IF more THEN @ ELSE StartOk]]

\* builder.build() settles.
start_browser_build(i, ok, tick) ==
  /\ Running
  /\ starts[i].pc = "build"
  /\ IF ~ok
       THEN /\ starts' = [starts EXCEPT ![i] =
                 [starts[i] EXCEPT !.pc = "done", !.result = StartError("build failed")]]
            /\ UNCHANGED <<now, drivers, currentSession, regLog>>
       ELSE IF stepsAfterBuild(variant)[1] = "setTimeouts"
         THEN /\ starts' = [starts EXCEPT ![i].pc = "setTimeouts", ![i].launched = TRUE]
              /\ UNCHANGED <<now, drivers, currentSession, regLog>>
         ELSE Register(i, tick, Len(stepsAfterBuild(variant)) > 1)
  /\ UNCHANGED <<variant, launch, status, handler, dispatched, quitCalls, passes, exitCode>>

\* driver.manage().setTimeouts(...) settles (server.js only): the session is
\* registered if that is still to come, and the handler returns; a rejection
\* goes to the catch.
start_browser_setTimeouts(i, ok, tick) ==
  /\ Running
  /\ starts[i].pc = "setTimeouts"
  /\ IF ok
       THEN IF starts[i].session = Null
              THEN Register(i, tick, FALSE)
              ELSE /\ starts' = [starts EXCEPT ![i] =
                        [starts[i] EXCEPT !.pc = "done", !.result = StartOk]]
                   /\ UNCHANGED <<now, drivers, currentSession, regLog>>
       ELSE /\ starts' = [starts EXCEPT ![i] =
                 [starts[i] EXCEPT !.pc = "done", !.launched = TRUE,
                                   !.result = StartError("setTimeouts failed")]]
            /\ UNCHANGED <<now, drivers, currentSession, regLog>>
  /\ UNCHANGED <<variant, launch, status, handler, dispatched, quitCalls, passes, exitCode>>

\* ------------------------------------------------------- command handlers
ElementCommands == {"find_element", "click_element", "send_keys", "get_element_text",
                    "hover", "drag_and_drop", "double_click", "right_click",
                    "upload_file"}
Commands == ElementCommands \cup {"navigate", "press_key", "take_screenshot"}

\* const maxRetries = 3
maxRetries == 3

\* while (attempt < maxRetries)
whileAttemptOrEqual(attempt) == attempt <= maxRetries
whileAttempt(attempt) == attempt < maxRetries

\* lastError = err
keepFirstError(lastError, err) == IF lastError = "" THEN err ELSE lastError
keepLastError(lastError, err) == err

\* throw new Error(`Navigation failed after ${maxRetries} attempts: ${lastError.message}`):
\* the parts of the template literal, in order.
NavigationFailed(n, msg) == <<"Navigation failed after ", n, " attempts: ", msg>>

\* The messages of the errors an awaited call (a driver call, the file write)
\* rejects with.
Faults == {"timeout", "session lost"}

\* z.enum(["id", "css", "xpath", "name", "tag", "class"])
LocatorStrategies == {"id", "css", "xpath", "name", "tag", "class"}

\* The strategy names given to getLocator: the six in some letter cases, and
\* other strings, among them names of properties every object inherits.
ByInputs == LocatorStrategies \cup {"ID", "Css", "XPATH", "Class"}
              \cup {"constructor", "toString", "__proto__", "link text", ""}

\* by.toLowerCase()
toLowerCase(by) ==
  CASE by = "ID" -> "id"
    [] by = "Css" -> "css"
    [] by = "XPATH" -> "xpath"
    [] by = "Class" -> "class"
    [] by = "toString" -> "tostring"
    [] OTHER -> by

\* strategies[key] of part_002: the own properties of the object literal are
\* the six strategies; "constructor" and "__proto__" are found on
\* Object.prototype (the Object function, and the prototype object, which is
\* no function); every other key is undefined.
strategiesOwnOnly(key) ==
  CASE key \in LocatorStrategies -> "strategy"
    [] OTHER -> "undefined"
strategies(key) ==
  CASE key \in LocatorStrategies -> "strategy"
    [] key = "constructor" -> "Object"
    [] key = "__proto__" -> "object"
    [] OTHER -> "undefined"

\* getLocator: whether it throws and the message of the error, and whether
\* what it returns is a locator.  server.js: switch (by.toLowerCase()) with
\* a throwing default.  part_002: strategies[by.toLowerCase()], the throw if
\* (!strategy), and strategy(value): Object(value) is a String object and no
\* locator, and calling the prototype object is a TypeError.
getLocator(v, by) ==
  LET key == toLowerCase(by)
      strategy == IF v = "part_002" THEN strategies(key) ELSE strategiesOwnOnly(key)
  IN  CASE strategy = "undefined" ->
             [threw |-> TRUE, message |-> "Unsupported locator strategy: ", locator |-> FALSE]
        [] strategy = "object" ->
             [threw |-> TRUE, message |-> "strategy is not a function", locator |-> FALSE]
        [] strategy = "Object" -> [threw |-> FALSE, message |-> "", locator |-> FALSE]
        [] OTHER -> [threw |-> FALSE, message |-> "", locator |-> TRUE]

\* until.elementLocated(locator) throws when it is not given a locator.
InvalidLocator == "Invalid locator"

\* The locator strategy given to the commands in the runs of the whole server.
LocatorInputs == {"css"}

\* The selectors given to the commands: value and, for drag_and_drop (whose
\* two sides are given the same strategy), targetValue.
Selectors == {"#a", "#b"}
OneSelector == [value |-> "#a", targetValue |-> ""]
TwoSelectors == [value |-> "#a", targetValue |-> "#b"]
SelectorsOf(cmd) ==
  IF cmd = "drag_and_drop" THEN TwoSelectors
  ELSE IF cmd \in {"navigate", "press_key", "take_screenshot"}
    THEN [value |-> "", targetValue |-> ""]
    ELSE OneSelector

\* timeout = 10000 in the parameter list of every element handler, and a
\* timeout a caller gives.
defaultTimeout == 10000
TimeoutInputs == {defaultTimeout, 2000}

\* The handlers that call getLocator() after getDriver().
UsesLocator(cmd) == cmd \notin {"navigate", "press_key", "take_screenshot"}

\* An awaited call settles for the handler: waitForPageLoad catches the
\* rejection of its driver.wait, logs it and returns.
AwaitUncaught(label, ok) == ok
AwaitIgnoresRejection(label, ok) == TRUE
AwaitResolves(label, ok) == ok \/ label = "waitForPageLoad"

\* The awaited calls of each handler after getDriver() and getLocator(), in
\* order.  server.js waits for visibility in five handlers and waits for
\* the page to be ready in navigate; the other revision does neither.
HandlerSteps(v, cmd, withPath) ==
  LET visible == IF v = "server_js" THEN <<"wait_visible">> ELSE <<>> IN
  CASE cmd = "navigate" ->
         IF v = "server_js" THEN <<"get", "waitForPageLoad">> ELSE <<"get">>
    [] cmd = "find_element"     -> <<"wait_located">> \o visible
    [] cmd = "click_element"    -> <<"wait_located">> \o visible \o <<"click">>
    [] cmd = "send_keys"        -> <<"wait_located">> \o visible \o <<"clear", "sendKeys">>
    [] cmd = "get_element_text" -> <<"wait_located">> \o visible \o <<"getText">>
    [] cmd = "hover"            -> <<"wait_located">> \o visible \o <<"perform">>
    [] cmd = "drag_and_drop"    -> <<"wait_located", "wait_located_target", "perform">>
    [] cmd = "double_click"     -> <<"wait_located", "perform">>
    [] cmd = "right_click"      -> <<"wait_located", "perform">>
    [] cmd = "press_key"        -> <<"perform">>
    [] cmd = "upload_file"      -> <<"wait_located", "sendKeys">>
    [] cmd = "take_screenshot"  ->
         IF withPath THEN <<"takeScreenshot", "writeFile">> ELSE <<"takeScreenshot">>

\* The driver.wait calls for an element, and the locator value each waits for.
IsElementWait(label) == label \in {"wait_located", "wait_located_target", "wait_visible"}
WaitsFor(c, label) == IF label = "wait_located_target" THEN c.targetValue ELSE c.value

\* The message of the error a rejected call rejects with.  driver.wait names
\* the condition it waited for when the time is up, and
\* until.elementLocated's condition names the locator; every other error
\* carries the message of the fault.
WaitTimedOut(value) ==
  CASE value = "#a" -> "Waiting for element to be located By(css selector, #a)"
    [] value = "#b" -> "Waiting for element to be located By(css selector, #b)"
    [] OTHER        -> "Waiting for element to be located"
ErrorMessage(c, label, fault) ==
  IF fault = "timeout" /\ label \in {"wait_located", "wait_located_target"}
    THEN WaitTimedOut(WaitsFor(c, label))
    ELSE fault

\* The screenshot: the image, its base64 text as driver.takeScreenshot()
\* resolves with it, and the bytes fs.promises.writeFile(path, data, "base64")
\* writes (the text decoded).
Image == <<"png">>
EncodeBase64(bytes) == <<"base64">> \o bytes
DecodeBase64(text) == Tail(text)

\* The content items after the first text item of a success result:
\* take_screenshot without a path returns the base64 text as a second item.
ReturnsInlineAlways(c) == IF c.cmd = "take_screenshot" THEN EncodeBase64(Image) ELSE <<>>
ReturnsInline(c) ==
  IF c.cmd = "take_screenshot" /\ ~c.withPath THEN EncodeBase64(Image) ELSE <<>>

\* fs.promises.writeFile is the one awaited call that is no driver call.
IsDriverCall(label) == label # "writeFile"

\* The text each handler puts before e.message in its catch block.
ErrorPrefix(cmd) ==
  CASE cmd = "navigate"         -> "Error navigating: "
    [] cmd = "find_element"     -> "Error finding element: "
    [] cmd = "click_element"    -> "Error clicking element: "
    [] cmd = "send_keys"        -> "Error entering text: "
    [] cmd = "get_element_text" -> "Error getting element text: "
    [] cmd = "hover"            -> "Error hovering over element: "
    [] cmd = "drag_and_drop"    -> "Error performing drag and drop: "
    [] cmd = "double_click"     -> "Error performing double click: "
    [] cmd = "right_click"      -> "Error performing right click: "
    [] cmd = "press_key"        -> "Error pressing key: "
    [] cmd = "upload_file"      -> "Error uploading file: "
    [] cmd = "take_screenshot"  -> "Error taking screenshot: "

\* The text of each handler's success result.
OkText(cmd, withPath) ==
  CASE cmd = "navigate"         -> "Navigated to "
    [] cmd = "find_element"     -> "Element found"
    [] cmd = "click_element"    -> "Element clicked"
    [] cmd = "send_keys"        -> "Text entered into element"
    [] cmd = "get_element_text" -> "text"
    [] cmd = "hover"            -> "Hovered over element"
    [] cmd = "drag_and_drop"    -> "Drag and drop completed"
    [] cmd = "double_click"     -> "Double click performed"
    [] cmd = "right_click"      -> "Right click performed"
    [] cmd = "press_key"        -> "Key pressed"
    [] cmd = "upload_file"      -> "File upload initiated"
    [] cmd = "take_screenshot"  ->
         IF withPath THEN "Screenshot saved to " ELSE "Screenshot captured as base64:"

\* catch (e) { return { content: [{ type: "text", text: `Error ...: ${e.message}` }] } }
HandlerRethrow(cmd, msg) == [kind |-> "thrown", prefix |-> "", message |-> msg]
HandlerCatchNoScreenshot(cmd, msg) ==
  IF cmd = "take_screenshot" THEN [kind |-> "thrown", prefix |-> "", message |-> msg]
                             ELSE [kind |-> "error", prefix |-> ErrorPrefix(cmd), message |-> msg]
HandlerCatch(cmd, msg) == [kind |-> "error", prefix |-> ErrorPrefix(cmd), message |-> msg]

HandlerReturn(cmd, withPath) == [kind |-> "ok", prefix |-> OkText(cmd, withPath), message |-> ""]

\* A handler that has returned: what it did and its result stay.
Returned(c, result) ==
  [IdleCmd EXCEPT !.pc = "done", !.cmd = c.cmd, !.withPath = c.withPath,
                  !.by = c.by, !.value = c.value, !.targetValue = c.targetValue,
                  !.timeout = c.timeout,
                  !.driver = c.driver, !.selected = c.selected,
                  !.attempt = c.attempt,
                  !.calls = c.calls, !.log = c.log, !.waited = c.waited,
                  !.file = c.file, !.wrote = c.wrote,
                  !.inline = IF result.kind = "ok" THEN ReturnsInline(c) ELSE <<>>,
                  !.returned = c.returned + 1, !.result = result]

\* The handler issues its step-th awaited call.
Issue(c, steps, step) ==
  [c EXCEPT !.pc = "await", !.step = step,
            !.calls = IF IsDriverCall(steps[step]) THEN @ + 1 ELSE @]

\* A command handler up to its first await: getDriver() inside the try block,
\* then the locator(s) and the first driver call.
\* The transport hands over one command at a time: the next one is dispatched
\* when the handler of the one before has returned.
command(name, withPath, by, selectors, timeout) ==
  /\ Serving
  /\ handler.pc # "await"
  /\ dispatched < MaxCommands
  /\ withPath => name = "take_screenshot"
  /\ LET r == getDriver(variant, drivers, currentSession)
         l == getLocator(variant, by)
         c == [IdleCmd EXCEPT !.cmd = name, !.withPath = withPath, !.by = by,
                              !.value = selectors.value,
                              !.targetValue = selectors.targetValue,
                              !.timeout = timeout,
                              !.driver = r.driver, !.selected = r.selected]
     IN /\ currentSession' = r.current
        /\ handler' =
             IF r.threw THEN Returned(c, HandlerCatch(name, r.message))
             ELSE IF UsesLocator(name) /\ l.threw
               THEN Returned(c, HandlerCatch(name, l.message))
             ELSE IF UsesLocator(name) /\ ~l.locator
               THEN Returned(c, HandlerCatch(name, InvalidLocator))
               ELSE Issue(c, HandlerSteps(variant, name, withPath), 1)
  /\ dispatched' = dispatched + 1
  /\ UNCHANGED <<variant, launch, status, now, drivers, starts, quitCalls, passes, exitCode, regLog>>

\* The awaited call of a handler settles: it resolves, or it rejects with an
\* error for fault.  driver.wait(condition, timeout) settles within timeout:
\* it rejects when the time is up, and late says that it resolved only just
\* before.
\* In navigate of server.js a rejection inside the loop is kept in lastError
\* and counted, and the loop goes round again or ends in the throw the outer
\* catch turns into the result.
command_settles(ok, fault, late) ==
  /\ Running
  /\ handler.pc = "await"
  /\ late => ok /\ IsElementWait(HandlerSteps(variant, handler.cmd, handler.withPath)[handler.step])
  /\ LET c == handler
         steps == HandlerSteps(variant, c.cmd, c.withPath)
         label == steps[c.step]
         retry == variant = "server_js" /\ c.cmd = "navigate"
         message == ErrorMessage(c, label, fault)
         took == IF ~IsElementWait(label) THEN 0
                 ELSE IF ~ok /\ fault = "timeout" THEN c.timeout
                 ELSE IF late THEN c.timeout - 1
                 ELSE 0
         c1 == [c EXCEPT !.wrote = @ \/ (ok /\ label = "writeFile"),
                         !.file = IF ok /\ label = "writeFile"
                                    THEN DecodeBase64(EncodeBase64(Image)) ELSE @,
                         !.waited = @ + took,
                         !.log = Append(@, [call |-> label,
                                            fault |-> IF ok THEN "" ELSE message])]
         c2 == [c1 EXCEPT !.attempt = @ + 1,
                          !.lastError = keepLastError(@, message)]
     IN handler' =
          IF AwaitResolves(label, ok)
            THEN IF c.step < Len(steps)
                   THEN Issue(c1, steps, c.step + 1)
                   ELSE Returned(c1, HandlerReturn(c.cmd, c.withPath))
            ELSE IF retry
              THEN IF whileAttempt(c2.attempt)
                     THEN Issue(c2, steps, 1)
                     ELSE Returned(c2, HandlerCatch(c.cmd,
                            NavigationFailed(maxRetries, c2.lastError)))
              ELSE Returned(c1, HandlerCatch(c.cmd, message))
  /\ UNCHANGED <<variant, launch, status, now, drivers, currentSession, starts, dispatched,
                 quitCalls, passes, exitCode, regLog>>

\* The resource browser-status: the text it returns for state.currentSession,
\* the parts of the template literal in order.
statusText(cur) ==
  IF cur # Null THEN <<"Active browser session: ", cur>>
                ELSE <<"No active browser session">>

\* A read of browser-status://current, handed over like a command when no
\* handler is suspended.  One read is followed in a run.
browser_status ==
  /\ Serving
  /\ handler.pc # "await"
  /\ status = <<>>
  /\ status' = statusText(currentSession)
  /\ UNCHANGED <<variant, launch, now, drivers, currentSession, starts, handler,
                 dispatched, quitCalls, passes, exitCode, regLog>>

\* ---------------------------------------------------------------- cleanup
\* process.exit(0)
ExitCodeOfCleanup == 0

\* try { await driver.quit() } catch (e) { console.error(...) } inside the
\* for loop: how the loop body ends when the quit resolved (ok) or rejected.
\* "next": the loop goes on to the next entry; "break": the loop is left;
\* "throw": the error leaves cleanup().
quitRethrown(ok) == IF ok THEN "next" ELSE "throw"
quitLeavesLoop(ok) == IF ok THEN "next" ELSE "break"
quitCaught(ok) == "next"

\* The Map iterator of a pass is live: it yields the entry at its position
\* in the list as the list is when it is resumed.
IteratorDone(m, idx) == idx > Len(m)

\* cleanup() of pass p from position idx on: either the loop ends, the
\* registry is cleared (state.drivers.clear(); state.currentSession = null)
\* and the process exits, or driver.quit() is invoked on the next entry and
\* the pass is suspended in the await.  A pass records the handles it has
\* invoked quit on (visited), whether the quit that settled last rejected
\* (rejected), the handles the registry held when the pass began (held) and
\* those it held when the pass cleared it (cleared).
cleanupFrom(pass, p, idx) ==
  IF IteratorDone(drivers, idx)
    THEN /\ drivers' = <<>>
         /\ currentSession' = Null
         /\ exitCode' = ExitCodeOfCleanup
         /\ passes' = [pass EXCEPT ![p].done = TRUE, ![p].cleared = MapValues(drivers)]
         /\ UNCHANGED quitCalls
    ELSE LET h == drivers[idx].driver IN
         /\ quitCalls' = [quitCalls EXCEPT ![h] = @ + 1]
         /\ passes' = pass
         /\ UNCHANGED <<drivers, currentSession, exitCode>>

\* process.on("SIGTERM", cleanup); process.on("SIGINT", cleanup): each
\* signal delivered calls cleanup() anew.
cleanup ==
  LET first == IF Len(drivers) > 0 THEN <<drivers[1].driver>> ELSE <<>>
      new == [idx |-> 1, visited |-> first, rejected |-> FALSE,
              held |-> MapValues(drivers), cleared |-> {}, done |-> FALSE]
  IN  cleanupFrom(Append(passes, new), Len(passes) + 1, 1)

signal(sig, limit) ==
  /\ Running
  /\ Len(passes) < limit
  /\ cleanup
  /\ UNCHANGED <<variant, launch, status, now, starts, handler, dispatched, regLog>>

\* process.on('SIGTERM', () => { child.kill('SIGTERM') }) and the same for
\* SIGINT in the launcher: the signal the handler gives to child.kill.
forwardAsTerm(sig) == "SIGTERM"
forward(sig) == sig

\* The launcher receives a signal: its handler calls child.kill, and the
\* server, when it still runs, receives the signal and calls cleanup().
launcher_signal(sig, limit) ==
  /\ launch.launcher = "running"
  /\ Len(launch.received) < limit
  /\ Running => Len(passes) < limit
  /\ launch' = [launch EXCEPT !.received = Append(@, sig),
                              !.killed = Append(@, forward(sig))]
  /\ IF Running THEN cleanup
                ELSE UNCHANGED <<drivers, currentSession, quitCalls, passes, exitCode>>
  /\ UNCHANGED <<variant, status, now, starts, handler, dispatched, regLog>>

\* The driver.quit() a pass awaits settles, resolved or rejected; a
\* rejection is caught and logged, and the loop goes on either way.  An error
\* that left cleanup() would be an unhandled rejection, which ends the
\* process with exit code 1.
quit_settles(p, ok) ==
  /\ Running
  /\ p \in 1..Len(passes)
  /\ LET end == quitCaught(ok)
         idx == IF end = "break" THEN Len(drivers) + 1 ELSE passes[p].idx + 1
         more == ~IteratorDone(drivers, idx)
         upd == [passes[p] EXCEPT
                   !.idx = idx,
                   !.rejected = ~ok,
                   !.visited = IF more /\ end # "throw"
                                 THEN Append(@, drivers[idx].driver) ELSE @]
     IN IF end = "throw"
          THEN /\ exitCode' = 1
               /\ passes' = [passes EXCEPT ![p] = upd]
               /\ UNCHANGED <<drivers, currentSession, quitCalls>>
          ELSE cleanupFrom([passes EXCEPT ![p] = upd], p, idx)
  /\ UNCHANGED <<variant, launch, status, now, starts, handler, dispatched, regLog>>

\* ----------------------------------------------------------------- startup
\* await server.connect(transport) runs once, at the end of the module.
StartingOrConnected(server) == server \in {"starting", "connected"}
Starting(server) == server = "starting"

\* The exit code of the launcher once the server has closed: the close
\* handler only logs the server's code, nothing is left to wait for, and the
\* launcher ends without a call of process.exit.
exitCodeAfterClose(code) == 0

\* spawn('node', [serverPath], ...): the server process starts, or the error
\* event fires and the launcher calls process.exit(1).
spawn(ok) ==
  /\ launch.launcher = "start"
  /\ launch' = IF ok THEN [launch EXCEPT !.launcher = "running", !.server = "starting"]
                     ELSE [launch EXCEPT !.launcher = "exited", !.code = 1]
  /\ UNCHANGED <<variant, status, now, drivers, currentSession, starts, handler, dispatched,
                 quitCalls, passes, exitCode, regLog>>

\* await server.connect(transport) settles.  part_002 catches the rejection and
\* calls process.exit(1); in server.js the rejected top-level await ends the
\* process with exit code 1.
connect(ok) ==
  /\ Running
  /\ Starting(launch.server)
  /\ IF ok THEN /\ launch' = [launch EXCEPT !.server = "connected"]
                /\ UNCHANGED exitCode
           ELSE /\ exitCode' = 1
                /\ UNCHANGED launch
  /\ UNCHANGED <<variant, status, now, drivers, currentSession, starts, handler, dispatched,
                 quitCalls, passes, regLog>>

\* child.on('close', (code) => ...): the server has exited; the launcher logs
\* its code and ends.
child_close ==
  /\ launch.launcher = "running"
  /\ exitCode # -1
  /\ launch' = [launch EXCEPT !.launcher = "exited", !.logged = exitCode,
                              !.code = exitCodeAfterClose(exitCode)]
  /\ UNCHANGED <<variant, status, now, drivers, currentSession, starts, handler, dispatched,
                 quitCalls, passes, exitCode, regLog>>

\* The outcomes of the driver search in the runs of the whole server: no
\* candidate is executable, or the first well-known path is.
SearchInputs == {{}, {"/usr/bin/chromedriver"}}

\* The lifecycle alone: launches and shutdown.
NextLifecycle ==
  \/ \E i \in 1..MaxLaunches, b \in Browsers, executable \in SearchInputs :
       start_browser(i, b, "", executable, NoOptions)
  \/ \E i \in 1..MaxLaunches, ok, tick \in BOOLEAN : start_browser_build(i, ok, tick)
  \/ \E i \in 1..MaxLaunches, ok, tick \in BOOLEAN : start_browser_setTimeouts(i, ok, tick)
  \/ \E sig \in {"SIGTERM", "SIGINT"} : signal(sig, MaxSignals)
  \/ \E p \in 1..MaxSignals, ok \in BOOLEAN : quit_settles(p, ok)

SpecLifecycle == Init /\ [][NextLifecycle]_vars

\* The whole server: launches, the other commands and shutdown.
Next ==
  \/ \E i \in 1..CmdLaunches, b \in Browsers, executable \in SearchInputs :
       start_browser(i, b, "", executable, NoOptions)
  \/ \E i \in 1..CmdLaunches, ok, tick \in BOOLEAN : start_browser_build(i, ok, tick)
  \/ \E i \in 1..CmdLaunches, ok, tick \in BOOLEAN : start_browser_setTimeouts(i, ok, tick)
  \/ \E name \in ElementCommands, by \in LocatorInputs :
       command(name, FALSE, by, SelectorsOf(name), defaultTimeout)
  \/ \E name \in Commands \ ElementCommands, withPath \in BOOLEAN :
       command(name, withPath, "", SelectorsOf(name), defaultTimeout)
  \/ command_settles(TRUE, "", FALSE)
  \/ \E fault \in Faults : command_settles(FALSE, fault, FALSE)
  \/ \E sig \in {"SIGTERM", "SIGINT"} : signal(sig, CmdSignals)
  \/ \E p \in 1..CmdSignals, ok \in BOOLEAN : quit_settles(p, ok)

Spec == Init /\ [][Next]_vars

\* ----------------------------------------------------- awaited calls settle
SignalSlots == 1..Largest({MaxSignals, CmdSignals})

\* The driver.quit() some pass awaits returns or fails.
QuitSettles == \E p \in SignalSlots, ok \in BOOLEAN : quit_settles(p, ok)
\* The same, for every driver but the one launched first.
QuitSettlesButFirst ==
  \E p \in SignalSlots, ok \in BOOLEAN :
    /\ quit_settles(p, ok)
    /\ passes[p].visited[Len(passes[p].visited)] # 1
\* The call a command handler awaits returns or fails.
CommandSettles ==
  command_settles(TRUE, "", FALSE) \/ \E fault \in Faults : command_settles(FALSE, fault, FALSE)
\* The call a start_browser handler awaits returns or fails.
StartSettles ==
  \E i \in StartSlots, ok, tick \in BOOLEAN :
    start_browser_build(i, ok, tick) \/ start_browser_setTimeouts(i, ok, tick)

\* Shutdown with commands in flight: launches, signals, and a command with a
\* locator and one without, when every quit call eventually returns or fails.
NextShutdown ==
  \/ \E i \in 1..CmdLaunches, b \in Browsers, executable \in SearchInputs :
       start_browser(i, b, "", executable, NoOptions)
  \/ \E i \in 1..CmdLaunches, ok, tick \in BOOLEAN : start_browser_build(i, ok, tick)
  \/ \E i \in 1..CmdLaunches, ok, tick \in BOOLEAN : start_browser_setTimeouts(i, ok, tick)
  \/ command("click_element", FALSE, "css", OneSelector, defaultTimeout)
  \/ command("navigate", FALSE, "", SelectorsOf("navigate"), defaultTimeout)
  \/ command_settles(TRUE, "", FALSE)
  \/ command_settles(FALSE, "timeout", FALSE)
  \/ \E sig \in {"SIGTERM", "SIGINT"} : signal(sig, CmdSignals)
  \/ \E p \in 1..CmdSignals, ok \in BOOLEAN : quit_settles(p, ok)

SpecQuitsSettle == Init /\ [][NextShutdown]_vars /\ WF_vars(QuitSettles)

\* The program from its start by the launcher: startup, launches, commands
\* that meet each kind of fault, and shutdown.
InitLaunch ==
  /\ variant \in Variants
  /\ now = 1
  /\ drivers = <<>>
  /\ currentSession = Null
  /\ starts = [i \in StartSlots |-> IdleStart]
  /\ handler = IdleCmd
  /\ dispatched = 0
  /\ quitCalls = [h \in Handles |-> 0]
  /\ passes = <<>>
  /\ exitCode = -1
  /\ regLog = <<>>
  /\ launch = NotLaunched
  /\ status = <<>>

NextLaunch ==
  \/ \E ok \in BOOLEAN : spawn(ok)
  \/ \E ok \in BOOLEAN : connect(ok)
  \/ child_close
  \/ \E i \in 1..CmdLaunches, b \in Browsers, executable \in SearchInputs :
       start_browser(i, b, "", executable, NoOptions)
  \/ \E i \in 1..CmdLaunches, ok, tick \in BOOLEAN : start_browser_build(i, ok, tick)
  \/ \E i \in 1..CmdLaunches, ok, tick \in BOOLEAN : start_browser_setTimeouts(i, ok, tick)
  \/ \E by \in {"css", "link text"} :
       command("click_element", FALSE, by, OneSelector, defaultTimeout)
  \/ command("navigate", FALSE, "", SelectorsOf("navigate"), defaultTimeout)
  \/ command("take_screenshot", TRUE, "", SelectorsOf("take_screenshot"), defaultTimeout)
  \/ command_settles(TRUE, "", FALSE)
  \/ command_settles(FALSE, "timeout", FALSE)
  \/ \E sig \in {"SIGTERM", "SIGINT"} : signal(sig, CmdSignals)
  \/ \E p \in 1..CmdSignals, ok \in BOOLEAN : quit_settles(p, ok)

SpecLaunch == InitLaunch /\ [][NextLaunch]_vars

\* The launcher and the signals it receives: startup, launches, and the
\* shutdown the forwarded signals start.
NextForward ==
  \/ \E ok \in BOOLEAN : spawn(ok)
  \/ \E ok \in BOOLEAN : connect(ok)
  \/ child_close
  \/ \E i \in 1..CmdLaunches, b \in Browsers, executable \in SearchInputs :
       start_browser(i, b, "", executable, NoOptions)
  \/ \E i \in 1..CmdLaunches, ok, tick \in BOOLEAN : start_browser_build(i, ok, tick)
  \/ \E i \in 1..CmdLaunches, ok, tick \in BOOLEAN : start_browser_setTimeouts(i, ok, tick)
  \/ \E sig \in {"SIGTERM", "SIGINT"} : launcher_signal(sig, CmdSignals)
  \/ \E p \in 1..CmdSignals, ok \in BOOLEAN : quit_settles(p, ok)

SpecForward == InitLaunch /\ [][NextForward]_vars
\* The server when every awaited call eventually returns or fails.
SpecCallsSettle ==
  Spec /\ WF_vars(QuitSettles) /\ WF_vars(CommandSettles) /\ WF_vars(StartSettles)
\* Launches and shutdown when the quit of the driver launched first may never
\* return and every other quit eventually returns or fails.
SpecHungQuit == SpecLifecycle /\ WF_vars(QuitSettlesButFirst) /\ WF_vars(StartSettles)

\* start_browser with every options value: the driver configuration it builds.
NextStartBrowser ==
  \/ \E i \in 1..CmdLaunches, b \in Browsers, executable \in SearchInputs,
          options \in OptionValues :
       start_browser(i, b, "", executable, options)
  \/ \E i \in 1..CmdLaunches, ok, tick \in BOOLEAN : start_browser_build(i, ok, tick)
  \/ \E i \in 1..CmdLaunches, ok, tick \in BOOLEAN : start_browser_setTimeouts(i, ok, tick)

InitStartBrowser ==
  /\ variant \in ConfigRevisions
  /\ now = 1
  /\ drivers = <<>>
  /\ currentSession = Null
  /\ starts = [i \in StartSlots |-> IdleStart]
  /\ handler = IdleCmd
  /\ dispatched = 0
  /\ quitCalls = [h \in Handles |-> 0]
  /\ passes = <<>>
  /\ exitCode = -1
  /\ regLog = <<>>
  /\ launch = Served
  /\ status = <<>>

SpecStartBrowser == InitStartBrowser /\ [][NextStartBrowser]_vars

\* start_browser with every outcome of the driver search.
NextChromeDriver ==
  \/ \E i \in 1..CmdLaunches, b \in Browsers, env \in EnvOverrides,
          executable \in ExecutableSets :
       start_browser(i, b, env, executable, NoOptions)
  \/ \E i \in 1..CmdLaunches, ok, tick \in BOOLEAN : start_browser_build(i, ok, tick)
  \/ \E i \in 1..CmdLaunches, ok, tick \in BOOLEAN : start_browser_setTimeouts(i, ok, tick)

SpecChromeDriver == Init /\ [][NextChromeDriver]_vars

\* ------------------------------------------------ getDriver as a function
\* getDriver of part_002 applied to every well-formed registry of at most
\* MaxEntries sessions: distinct ids, distinct handles, and a current pointer
\* that is unset or names an entry.
EntryIds == Browsers \X (1..MaxEntries)

Registries ==
  UNION {{m \in [1..n -> [id : EntryIds, driver : Handles]] :
            \A a, b \in 1..n : a # b => m[a].id # m[b].id /\ m[a].driver # m[b].driver}
         : n \in 0..MaxEntries}

InitGetDriver ==
  /\ variant = "part_002"
  /\ now = 1
  /\ drivers \in Registries
  /\ currentSession \in MapKeys(drivers) \cup {Null}
  /\ starts = [i \in StartSlots |-> IdleStart]
  /\ handler = IdleCmd
  /\ dispatched = 0
  /\ quitCalls = [h \in Handles |-> 0]
  /\ passes = <<>>
  /\ exitCode = -1
  /\ regLog = <<>>
  /\ launch = Served
  /\ status = <<>>

NextGetDriver ==
  \/ \E name \in ElementCommands, by \in LocatorInputs :
       command(name, FALSE, by, SelectorsOf(name), defaultTimeout)
  \/ \E name \in Commands \ ElementCommands, withPath \in BOOLEAN :
       command(name, withPath, "", SelectorsOf(name), defaultTimeout)
  \/ command_settles(TRUE, "", FALSE)
  \/ \E fault \in Faults : command_settles(FALSE, fault, FALSE)

SpecGetDriver == InitGetDriver /\ [][NextGetDriver]_vars

\* The element commands and take_screenshot on one registered session, with
\* every strategy name, selector pair and timeout, and waits that resolve at
\* once or only when the time is up.
InitSession ==
  /\ variant \in Variants
  /\ now = 1
  /\ drivers = RegisterDriver(<<>>, NewSessionId("chrome", 1), 1)
  /\ currentSession = NewSessionId("chrome", 1)
  /\ starts = [i \in StartSlots |->
                 IF i = 1
                   THEN [IdleStart EXCEPT
                           !.pc = "done", !.browser = "chrome",
                           !.arguments = chromeArguments(variant, NoOptions),
                           !.dataDir = dataDirOf(variant, "chrome", 1),
                           !.executable = {"/usr/bin/chromedriver"},
                           !.driverPath = "/usr/bin/chromedriver",
                           !.launched = TRUE,
                           !.session = NewSessionId("chrome", 1),
                           !.result = StartOk]
                   ELSE IdleStart]
  /\ handler = IdleCmd
  /\ dispatched = 0
  /\ quitCalls = [h \in Handles |-> 0]
  /\ passes = <<>>
  /\ exitCode = -1
  /\ regLog = <<[id |-> NewSessionId("chrome", 1), driver |-> 1]>>
  /\ launch = Served
  /\ status = <<>>

NextElements ==
  \/ \E name \in ElementCommands \ {"drag_and_drop"}, by \in ByInputs,
          timeout \in TimeoutInputs :
       command(name, FALSE, by, OneSelector, timeout)
  \/ \E by \in LocatorInputs, value, targetValue \in Selectors, timeout \in TimeoutInputs :
       command("drag_and_drop", FALSE, by,
               [value |-> value, targetValue |-> targetValue], timeout)
  \/ \E withPath \in BOOLEAN :
       command("take_screenshot", withPath, "", SelectorsOf("take_screenshot"),
               defaultTimeout)
  \/ \E late \in BOOLEAN : command_settles(TRUE, "", late)
  \/ \E fault \in Faults : command_settles(FALSE, fault, FALSE)

SpecElements == InitSession /\ [][NextElements]_vars

\* The commands and the status query against an empty registry and against
\* one registered session, before and during shutdown.
InitFrame == Init \/ InitSession
NextFrame ==
  \/ \E name \in ElementCommands, by \in LocatorInputs :
       command(name, FALSE, by, SelectorsOf(name), defaultTimeout)
  \/ \E name \in Commands \ ElementCommands, withPath \in BOOLEAN :
       command(name, withPath, "", SelectorsOf(name), defaultTimeout)
  \/ command_settles(TRUE, "", FALSE)
  \/ \E fault \in Faults : command_settles(FALSE, fault, FALSE)
  \/ browser_status
  \/ \E sig \in {"SIGTERM", "SIGINT"} : signal(sig, CmdSignals)
  \/ \E p \in 1..CmdSignals, ok \in BOOLEAN : quit_settles(p, ok)

SpecFrame == InitFrame /\ [][NextFrame]_vars

\* Launches that complete during the drain: one session is registered, and
\* the builds of the start_browser commands that follow resolve or reject
\* after a termination signal has arrived, at a later clock value.
DrainSlots == {i \in StartSlots : i > 1}
NextDrainLaunch ==
  \/ \E i \in DrainSlots, b \in Browsers, executable \in SearchInputs :
       start_browser(i, b, "", executable, NoOptions)
  \/ \E i \in DrainSlots, ok \in BOOLEAN :
       passes # <<>> /\ start_browser_build(i, ok, TRUE)
  \/ \E i \in DrainSlots, ok \in BOOLEAN : start_browser_setTimeouts(i, ok, TRUE)
  \/ \E sig \in {"SIGTERM", "SIGINT"} : signal(sig, MaxSignals)
  \/ \E p \in 1..MaxSignals, ok \in BOOLEAN : quit_settles(p, ok)

SpecDrainLaunch == InitSession /\ [][NextDrainLaunch]_vars

\* ================================================================= claims
QuitInvoked(h) == quitCalls[h] > 0
Occurrences(seq, x) == Cardinality({k \in 1..Len(seq) : seq[k] = x})
LastRegistered == regLog[Len(regLog)]
\* The step in which a command is dispatched and resolves its driver.
Dispatches == handler.pc # "await" /\ dispatched' = dispatched + 1

\* C1: two termination signals give one drain pass: quit is invoked at most
\* once on each handle, the second trigger invokes no quit, and when the
\* process exits after two triggers quit has been invoked exactly once on
\* each handle the registry held at the first.
C1_QuitExactlyOnce ==
  /\ \A h \in Handles : quitCalls[h] <= 1
  /\ \A p \in 2..Len(passes) : passes[p].visited = <<>>
  /\ (~Running /\ Len(passes) >= 2) => \A h \in passes[1].held : quitCalls[h] = 1

\* C2: when the process has exited after a termination signal, quit has been
\* invoked on every handle start_browser registered.
C2_EveryRegisteredHandleQuit ==
  ~Running => \A i \in 1..Len(regLog) : QuitInvoked(regLog[i].driver)

\* C3: N registrations give N distinct session ids and N entries in the map.
C3_DistinctSessionIds ==
  /\ \A a, b \in 1..Len(regLog) : a # b => regLog[a].id # regLog[b].id
  /\ Running => Len(drivers) = Len(regLog)

\* C4: at every suspension point, currentSession, when set, is a key of the
\* map, and every entry of the map is whole: an id with its driver handle.
C4_CurrentNamesEntry ==
  /\ currentSession # Null => MapHas(drivers, currentSession)
  /\ \A i \in 1..Len(drivers) : drivers[i].id # Null /\ drivers[i].driver # Undefined

\* C4 witness: a cleanup pass is suspended in a quit while another launch is
\* about to register and the current pointer is set.
C4_Witness ==
  /\ Running /\ Len(passes) > 0 /\ Len(drivers) = 2
  /\ currentSession = drivers[2].id

\* C5: a command dispatched at any time resolves to a handle on which quit
\* has not been invoked.
C5_ResolvesNoQuitHandle ==
  Running =>
    LET r == getDriver(variant, drivers, currentSession)
    IN  ~r.threw => ~QuitInvoked(r.driver)

\* C6: the registry is detached before any quit: once quit has been invoked
\* on a handle the map is empty and current is unset.
C6_DetachedBeforeQuit ==
  (\E h \in Handles : QuitInvoked(h)) => drivers = <<>> /\ currentSession = Null

\* C7: a completed drain pass leaves the map empty and current unset, has
\* invoked quit exactly once on every handle the registry held, when the pass
\* began and when it cleared the map, and invokes no quit on an empty registry.
C7_DrainVisitsAllOnce ==
  \A p \in 1..Len(passes) :
    passes[p].done =>
      /\ drivers = <<>> /\ currentSession = Null
      /\ \A h \in passes[p].held \cup passes[p].cleared :
           Occurrences(passes[p].visited, h) = 1
      /\ passes[p].held = {} /\ passes[p].cleared = {} => passes[p].visited = <<>>

\* C8: after any registration, and until the next one, a command resolves to
\* the handle registered last.
C8_LastCreatedWins ==
  (Running /\ regLog # <<>>) =>
    getDriver(variant, drivers, currentSession).driver = LastRegistered.driver

\* C8 witness: two launches overlapped, and the one dispatched first
\* registered last.
C8_Witness ==
  /\ Running /\ Len(regLog) = 2
  /\ regLog[1].driver = 2 /\ regLog[2].driver = 1

C10_NoActiveSession ==
  regLog = <<>> =>
    /\ handler.pc \in {"idle", "done"}
    /\ handler.pc = "done" =>
         /\ handler.result = [kind |-> "error", prefix |-> ErrorPrefix(handler.cmd),
                              message |-> NoActiveSessionMessage(variant)]
         /\ handler.calls = 0 /\ ~handler.wrote
    /\ drivers = <<>> /\ currentSession = Null

\* C10 witness: a command has returned its error after a start_browser that
\* failed, with the process still running.
C10_Witness ==
  /\ Running /\ regLog = <<>> /\ handler.pc = "done"
  /\ \E i \in StartSlots : starts[i].pc = "done"

\* ------------------------------------------------------ command handlers
\* The awaited calls of the handler in progress that settled, by label.
Settled(label) == {k \in 1..Len(handler.log) : handler.log[k].call = label}
Rejected(label) == {k \in Settled(label) : handler.log[k].fault # ""}
Resolved(label) == {k \in Settled(label) : handler.log[k].fault = ""}
\* The awaited call the handler is suspended in, "" when it is not suspended.
Pending ==
  IF handler.pc = "await"
    THEN HandlerSteps(variant, handler.cmd, handler.withPath)[handler.step]
    ELSE ""
\* The load calls (driver.get) a navigate has issued.
IssuedLoads == Cardinality(Settled("get")) + (IF Pending = "get" THEN 1 ELSE 0)
\* A navigate that found its session.
Navigating == handler.cmd = "navigate" /\ handler.driver # Undefined

\* C11: a fault at any step of a handler (session resolution, locator, driver
\* call, file write) is caught in the handler and returned as an error result:
\* every handler that has ended returned an ok or an error result, never threw,
\* and a handler whose last awaited call rejected outside the page-ready wait,
\* or that ended before its first call, returned an error with its own prefix.
C11_FaultsReturnedAsErrors ==
  /\ \A i \in StartSlots :
       starts[i].pc = "done" => starts[i].result.kind \in {"ok", "error"}
  /\ handler.pc = "done" =>
       /\ handler.result.kind \in {"ok", "error"}
       /\ handler.result.kind = "error" => handler.result.prefix = ErrorPrefix(handler.cmd)
       /\ handler.log = <<>> => handler.result.kind = "error"
       /\ (/\ handler.log # <<>>
           /\ handler.log[Len(handler.log)].fault # ""
           /\ handler.log[Len(handler.log)].call # "waitForPageLoad")
          => handler.result.kind = "error"

\* C11 witness: take_screenshot took the screenshot, the file write rejected,
\* and the handler returned the error.
C11_Witness ==
  /\ handler.pc = "done" /\ handler.cmd = "take_screenshot"
  /\ Resolved("takeScreenshot") # {} /\ Rejected("writeFile") # {}
  /\ handler.result.kind = "error"

\* C13: a navigate with an active session issues at least 1 and at most 3
\* load calls, issues none after one that succeeded, and returns success,
\* reporting no failure, whenever one of them succeeded.
C13_NavigateRetries ==
  (Navigating /\ handler.pc # "idle") =>
    /\ IssuedLoads \in 1..3
    /\ \A k \in Resolved("get") :
         /\ \A j \in Settled("get") : j <= k
         /\ Pending # "get"
    /\ (handler.pc = "done" /\ Resolved("get") # {}) =>
         handler.result = [kind |-> "ok", prefix |-> "Navigated to ", message |-> ""]

\* C13 witness: the load call failed on attempts 1 and 2 and succeeded on
\* attempt 3, and navigate returned success.
C13_Witness ==
  /\ Navigating /\ handler.pc = "done"
  /\ Cardinality(Rejected("get")) = 2 /\ Cardinality(Resolved("get")) = 1
  /\ handler.result.kind = "ok"

\* C14: a navigate whose load call has failed 3 times has ended: it issued
\* no fourth load call and returned an error result that references 3
\* attempts and carries the message of the third error.
C14_NavigationFailed ==
  (Navigating /\ Cardinality(Rejected("get")) >= 3) =>
    /\ handler.pc = "done"
    /\ IssuedLoads = 3
    /\ handler.result =
         [kind |-> "error", prefix |-> "Error navigating: ",
          message |-> <<"Navigation failed after ", 3, " attempts: ",
                        handler.log[Len(handler.log)].fault>>]

\* C14 witness: three load calls failed, the first and the third with
\* different errors, and navigate has returned.
C14_Witness ==
  /\ Navigating /\ handler.pc = "done"
  /\ Cardinality(Rejected("get")) = 3
  /\ handler.log[1].fault # handler.log[Len(handler.log)].fault

\* C15: when the page-ready wait after a successful load call times out or
\* fails, navigate has returned success after exactly that one successful
\* load call: the wait is the last call it made and no load call follows.
C15_ReadyWaitIsSoft ==
  (Navigating /\ Rejected("waitForPageLoad") # {}) =>
    /\ handler.pc = "done"
    /\ handler.result = [kind |-> "ok", prefix |-> "Navigated to ", message |-> ""]
    /\ Cardinality(Resolved("get")) = 1
    /\ Rejected("waitForPageLoad") = {Len(handler.log)}
    /\ Resolved("get") = {Len(handler.log) - 1}

\* C15 witness: the load call succeeded at the second attempt, the page-ready
\* wait then failed, and navigate returned success.
C15_Witness ==
  /\ Navigating /\ handler.pc = "done"
  /\ Rejected("waitForPageLoad") # {} /\ Cardinality(Rejected("get")) = 1
  /\ handler.result.kind = "ok"

\* C12: every dispatched command eventually returns exactly one result, a
\* command suspended in a driver call when a termination signal arrives
\* included.
C12_EveryCommandReturnsOnce ==
  /\ [](handler.returned <= 1)
  /\ (handler.pc = "await") ~> (handler.pc = "done" /\ handler.returned = 1)
  /\ \A i \in StartSlots :
       (starts[i].pc \in {"build", "setTimeouts"}) ~> (starts[i].pc = "done")

\* ---------------------------------------------------------------- cleanup
\* C16: when the quit a pass awaits fails, the pass goes on as after a quit
\* that returned: it invokes quit on the next entry of the registry, or, with
\* no entry left, the process exits with code 0; the process never exits with
\* another code.
C16_QuitFailureIsolated ==
  /\ [](exitCode \in {-1, 0})
  /\ [][\A p \in 1..Len(passes) :
         (Len(passes') = Len(passes)
            /\ passes'[p].idx > passes[p].idx /\ passes'[p].rejected) =>
           IF passes[p].idx < Len(drivers)
             THEN /\ exitCode' = -1
                  /\ quitCalls' = [quitCalls EXCEPT
                                     ![drivers[passes[p].idx + 1].driver] = @ + 1]
             ELSE exitCode' = 0]_vars

\* C16 witness: the quit of the first of two sessions has failed and the pass
\* is suspended in the quit of the second.
C16_Witness ==
  /\ Running /\ Len(passes) = 1
  /\ Len(passes[1].visited) = 2 /\ passes[1].idx = 2 /\ passes[1].rejected
  /\ \A h \in MapValues(drivers) : quitCalls[h] = 1

\* C17: the process exits only when every quit attempt that was started has
\* completed: at exit no cleanup pass is suspended in a quit.
C17_ExitAfterAllQuits ==
  ~Running => \A p \in 1..Len(passes) : passes[p].done

\* C18: when every quit call eventually returns or fails, a termination
\* signal delivered at any point leads to the exit of the process with code 0.
C18_SignalLeadsToExit ==
  (Len(passes) > 0) ~> (exitCode = 0)

\* C18 witness: the signal arrived while a command was suspended in a driver
\* call, and the process has exited with code 0.
C18_Witness ==
  /\ exitCode = 0 /\ handler.pc = "await"
  /\ \E p \in 1..Len(passes) : passes[p].visited # <<>>

\* C19: a quit that never returns on one handle does not block the others:
\* once a drain has begun, quit is eventually invoked on every handle the
\* registry holds, unless the process has ended or the handle has left the
\* registry.
C19_HungQuitBlocksNoOther ==
  \A h \in Handles :
    (Len(passes) > 0 /\ h \in MapValues(drivers))
      ~> (QuitInvoked(h) \/ ~Running \/ h \notin MapValues(drivers))

\* ---------------------------------------------------------- start_browser
\* The four mandatory baseline settings: headless, sandbox disabled, shared
\* memory disabled, GPU disabled.
Baseline == {"--headless", "--no-sandbox", "--disable-dev-shm-usage", "--disable-gpu"}
\* The setting an argument stands for: --headless=new is the headless setting.
Setting(arg) == IF arg = "--headless=new" THEN "--headless" ELSE arg

\* C20: for every browser kind and every options value, the driver
\* configuration start_browser builds contains the four baseline settings.
C20_BaselineInEveryConfiguration ==
  \A i \in StartSlots :
    starts[i].pc # "idle" =>
      Baseline \subseteq {Setting(starts[i].arguments[k]) : k \in 1..Len(starts[i].arguments)}

\* The baseline arguments in the order the code adds them.
BaselineArguments == <<"--headless", "--no-sandbox", "--disable-dev-shm-usage", "--disable-gpu">>

\* C21: the argument list of every configuration is the baseline followed by
\* the caller's extra arguments in the caller's order: it starts with the four
\* baseline arguments and ends with the extras, and no extra takes the place
\* of a baseline argument.
C21_ExtrasAppendedAfterBaseline ==
  \A i \in StartSlots :
    starts[i].pc # "idle" =>
      LET arguments == starts[i].arguments
          fixed == Len(arguments) - Len(starts[i].extras)
      IN  /\ fixed >= Len(BaselineArguments)
          /\ [k \in 1..Len(BaselineArguments) |-> Setting(arguments[k])] = BaselineArguments
          /\ SubSeq(arguments, fixed + 1, Len(arguments)) = starts[i].extras

\* C22: no two sessions launched by start_browser are configured with the
\* same profile and cache directory.
C22_OwnDataDirPerSession ==
  \A i, j \in StartSlots :
    (i # j /\ starts[i].launched /\ starts[j].launched /\ starts[i].dataDir # Null)
      => starts[i].dataDir # starts[j].dataDir

\* The start_browser calls that ran the driver search, and the candidates of a
\* call in the order of the search.
Searched == {i \in StartSlots : starts[i].pc # "idle" /\ starts[i].browser = "chrome"}
Candidates(i) == IF starts[i].env = "" THEN KnownPaths ELSE <<starts[i].env>> \o KnownPaths
NotFound(i) ==
  /\ starts[i].pc = "done"
  /\ starts[i].result.kind = "error"
  /\ starts[i].result.message = ChromedriverNotFound

\* C23: the driver search returns the first executable candidate in the order
\* environment override (if set), /usr/bin/chromedriver,
\* /usr/lib/chromium/chromedriver, /usr/bin/chromium-chromedriver, and the
\* call fails with the not-found error exactly when no candidate is executable.
C23_FirstExecutableCandidate ==
  \A i \in Searched :
    LET executableAt == {k \in 1..Len(Candidates(i)) : Candidates(i)[k] \in starts[i].executable}
    IN  /\ NotFound(i) <=> executableAt = {}
        /\ executableAt # {} =>
             \E k \in executableAt :
               /\ \A j \in executableAt : k <= j
               /\ starts[i].driverPath = Candidates(i)[k]

\* A search with the override set but not executable, the first well-known
\* path not executable, and two later candidates executable.
C23_Witness ==
  \E i \in Searched :
    /\ starts[i].env = "/opt/chromedriver"
    /\ starts[i].executable = {"/usr/lib/chromium/chromedriver", "/usr/bin/chromium-chromedriver"}
    /\ starts[i].driverPath = "/usr/lib/chromium/chromedriver"
    /\ starts[i].launched

\* C24: take_screenshot does exactly one of two things.  With an output path
\* it writes the bytes of the image to the file and returns success without
\* inline data, or returns an error when the write fails; without a path it
\* returns the image inline and writes no file.  It never does both.
C24_ScreenshotFileOrInline ==
  handler.cmd = "take_screenshot" =>
    /\ ~(handler.wrote /\ handler.inline # <<>>)
    /\ handler.withPath =>
         /\ handler.inline = <<>>
         /\ (handler.pc = "done" /\ handler.result.kind = "ok") =>
              /\ handler.wrote
              /\ handler.file = Image
              /\ handler.result.prefix = "Screenshot saved to "
         /\ Rejected("writeFile") # {} =>
              /\ handler.pc = "done"
              /\ handler.result.kind = "error"
              /\ ~handler.wrote
    /\ ~handler.withPath =>
         /\ ~handler.wrote
         /\ handler.file = <<>>
         /\ "writeFile" \notin {handler.log[k].call : k \in 1..Len(handler.log)}
         /\ (handler.pc = "done" /\ handler.result.kind = "ok") =>
              /\ handler.inline # <<>>
              /\ DecodeBase64(handler.inline) = Image

\* A screenshot written to the file and returned without inline data.
C24_Witness ==
  /\ handler.cmd = "take_screenshot"
  /\ handler.withPath
  /\ handler.pc = "done"
  /\ handler.result.kind = "ok"
  /\ handler.wrote
  /\ handler.inline = <<>>

\* C25: getLocator succeeds for the six strategies in any letter case, and for
\* every other strategy name it fails with the unsupported-strategy error, so
\* that the handler returns that error without a driver call.
Unsupported ==
  /\ handler.pc = "done"
  /\ handler.result.kind = "error"
  /\ handler.result.message = "Unsupported locator strategy: "
  /\ handler.calls = 0
C25_GetLocatorTotal ==
  (handler.pc # "idle" /\ UsesLocator(handler.cmd)) =>
    (Unsupported <=> toLowerCase(handler.by) \notin LocatorStrategies)

\* The commands that act on the element they waited for, and the calls a
\* handler has issued so far.
ActionCommands == {"click_element", "send_keys", "get_element_text", "hover",
                   "double_click", "right_click", "upload_file"}
IssuedCalls ==
  {handler.log[k].call : k \in 1..Len(handler.log)}
    \cup (IF handler.pc = "await"
            THEN {HandlerSteps(variant, handler.cmd, handler.withPath)[handler.step]}
            ELSE {})
ActionIssued == \E label \in IssuedCalls : ~IsElementWait(label)
WaitRejected ==
  \E k \in 1..Len(handler.log) :
    IsElementWait(handler.log[k].call) /\ handler.log[k].fault # ""

\* C26: in click_element, send_keys, get_element_text, hover, double_click,
\* right_click and upload_file the action on the element is issued only after
\* every element wait of the handler resolved; when a wait fails the action is
\* never issued and the handler returns an error.
C26_ActionOnlyAfterElementWait ==
  handler.cmd \in ActionCommands =>
    LET steps == HandlerSteps(variant, handler.cmd, handler.withPath)
    IN  /\ ActionIssued =>
             \A k \in 1..Len(steps) :
               IsElementWait(steps[k]) =>
                 /\ k <= Len(handler.log)
                 /\ handler.log[k].call = steps[k]
                 /\ handler.log[k].fault = ""
        /\ WaitRejected =>
             /\ ~ActionIssued
             /\ handler.pc = "done"
             /\ handler.result.kind = "error"

\* click_element whose wait for the element timed out.
C26_Witness ==
  /\ handler.cmd = "click_element"
  /\ handler.pc = "done"
  /\ WaitRejected
  /\ handler.result.kind = "error"
  /\ handler.calls = 1

\* C27: the waiting of an element command, for the element to exist and to be
\* visible together, takes no longer than its timeout.
C27_WaitingWithinTimeout ==
  handler.cmd \in ElementCommands => handler.waited <= handler.timeout

\* The results drag_and_drop returns when the wait named by label fails.
DragFailure(label) ==
  {HandlerCatch("drag_and_drop", ErrorMessage(handler, label, fault)) : fault \in Faults}

\* C28: drag_and_drop issues the drag only after the waits for the source and
\* for the target resolved, and when one of them fails the error tells which:
\* it is no result the failure of the other side returns.
C28_DragNamesFailingSide ==
  handler.cmd = "drag_and_drop" =>
    /\ "perform" \in IssuedCalls =>
         Resolved("wait_located") # {} /\ Resolved("wait_located_target") # {}
    /\ WaitRejected => "perform" \notin IssuedCalls
    /\ Rejected("wait_located") # {} =>
         handler.result \notin DragFailure("wait_located_target")
    /\ Rejected("wait_located_target") # {} =>
         handler.result \notin DragFailure("wait_located")

\* C29: no fault met while a command is handled ends the process: the server
\* exits only on the shutdown path a signal starts or on a fault of its
\* startup, and the launcher ends only when it could not start the server or
\* after the server has exited.
C29_ExitOnlyByShutdownOrStartup ==
  [][/\ exitCode' # exitCode => (passes' # <<>> \/ launch.server = "starting")
     /\ launch.code # launch'.code => (launch.launcher = "start" \/ exitCode # -1)]_vars

\* The driver executable was not found by one command and another command
\* returned an error, no signal has arrived, and the process still runs.
C29_Witness ==
  /\ Running
  /\ passes = <<>>
  /\ \E i \in StartSlots : NotFound(i)
  /\ handler.pc = "done"
  /\ handler.result.kind = "error"

\* C30: the exit code of the program as its starter sees it: 0 after a clean
\* shutdown, and not 0 when the driver executable could not be located, when
\* the server failed to connect its transport, or when the launcher could not
\* start the server.
C30_ExitCodeSeenByStarter ==
  /\ (\E i \in StartSlots : NotFound(i)) => launch.code \notin {-1, 0}
  /\ launch.launcher = "exited" =>
       /\ exitCode = ExitCodeOfCleanup => launch.code = 0
       /\ exitCode \notin {-1, ExitCodeOfCleanup} => launch.code # 0
       /\ launch.server = "none" => launch.code # 0

\* C31: only a successful start_browser and the end of the shutdown drain
\* change the sessions map or the current pointer: every step of a command
\* handler and every status query leaves both as they were, whether the
\* command succeeds or fails.
C31_CommandsLeaveRegistry ==
  [][/\ (handler' # handler \/ status' # status) =>
          (drivers' = drivers /\ currentSession' = currentSession)
     /\ (drivers' # drivers \/ currentSession' # currentSession) =>
          (regLog' # regLog \/ (exitCode = -1 /\ exitCode' # -1))]_vars

\* A command failed and the status was read while a session is registered.
C31_Witness ==
  /\ Running
  /\ drivers # <<>>
  /\ handler.pc = "done"
  /\ handler.result.kind = "error"
  /\ handler.calls > 0
  /\ status # <<>>

\* C32: while the process runs and no termination signal has arrived no
\* session is destroyed: the ids in the map only grow, and every handle in the
\* map stays in it.
C32_NoSessionDestroyedWhileRunning ==
  [][(Running /\ passes = <<>> /\ passes' = <<>>) =>
       /\ MapKeys(drivers) \subseteq MapKeys(drivers')
       /\ MapValues(drivers) \subseteq MapValues(drivers')]_vars

\* The start_browser handlers that returned an error result.
StartFailed(i) == starts[i].pc = "done" /\ starts[i].result.kind = "error"

\* C33: a start_browser that returns an error result leaves the sessions map
\* and the current pointer as they were before it: none of the writes to them
\* (each is a registration) is its own, and neither holds its driver.
C33_FailedStartLeavesRegistry ==
  \A i \in StartSlots :
    StartFailed(i) =>
      /\ \A k \in 1..Len(regLog) : regLog[k].driver # i
      /\ i \notin MapValues(drivers)
      /\ starts[i].session = Null

\* A launch failed in the timeout configuration while another session is
\* registered.
C33_Witness ==
  \E i \in StartSlots :
    /\ StartFailed(i)
    /\ starts[i].launched
    /\ drivers # <<>>
    /\ currentSession # Null

\* C34: every driver a start_browser launched is owned once the handler has
\* returned: it is in the sessions map, or quit has been invoked on it.
C34_LaunchedDriverOwned ==
  \A i \in StartSlots :
    (starts[i].launched /\ starts[i].pc = "done") =>
      (i \in MapValues(drivers) \/ QuitInvoked(i))

\* C35: at every suspension point currentSession is null exactly when the
\* sessions map is empty, so that no command takes the auto-selection branch
\* of getDriver.
C35_CurrentUnsetIffEmpty ==
  /\ currentSession = Null <=> drivers = <<>>
  /\ ~AutoSelects(variant, drivers, currentSession)
  /\ ~handler.selected

\* A command resolved its driver in the revision with the auto-selection
\* branch while a session was registered and a drain was under way.
C35_Witness ==
  /\ variant = "part_002"
  /\ Running
  /\ drivers # <<>>
  /\ passes # <<>>
  /\ handler.pc # "idle"
  /\ handler.driver # Undefined

\* C36: a start_browser whose launch completes after a termination signal
\* leaves no live driver behind: when the process has exited, quit has been
\* invoked on every driver launched during the drain.
C36_NoLiveDriverAfterDrain ==
  exitCode # -1 =>
    \A i \in DrainSlots : starts[i].launched => QuitInvoked(i)

====
